---- MODULE Spec2Model ----
(***************************************************************************)
(* Model of the boss-notification Discord bot (discord-bot-server.js):     *)
(* the two in-memory maps participationData and messageBossData, the       *)
(* reaction handlers, the /api/send-boss request, the periodic respawn     *)
(* time update (reconciliation tick) and the respawn-time computation.     *)
(*                                                                         *)
(* Seven specifications share the variables:                               *)
(*   Spec      the bot as a whole (maps, handlers, tick);                  *)
(*   SpecTime  one boss payload rendered and re-rendered as the clock      *)
(*             advances (calculateRespawnTime, formatRespawnTime,          *)
(*             formatDiscordDate), over the full set of timing fields;     *)
(*   SpecPoll  one registered notification and the reactions of several    *)
(*             users on it (the Quick Stats);                              *)
(*   SpecTick  several registered notifications and the interval callback  *)
(*             running over them around the day after their respawn;       *)
(*   SpecRedraw one posted notification and one call of                    *)
(*             updateParticipationEmbed followed through its suspensions   *)
(*             while reactions go on being handled;                        *)
(*   SpecOrder  the reaction events on one notification followed from      *)
(*             their arrival, handlers suspended in reaction.fetch();      *)
(*   SpecEvict  the tick with the fairness of its timer.                   *)
(***************************************************************************)
EXTENDS Integers, Sequences, FiniteSets, TLC

(***************************************************************************)
(* Bounds of the model.                                                    *)
(***************************************************************************)
\* number of message ids the transport hands out (one per posted message)
MaxMsg == 1
\* number of human users that react
MaxUsers == 2
\* SpecTime: the clock and the timing fields range over the hours 0..MaxHour
MaxHour == 6
\* SpecTime: respawn_hours ranges over 0..MaxRespawnHours
MaxRespawnHours == 3
\* SpecPoll: number of users that react to the one tracked notification
MaxVoters == 3
\* SpecTick: number of notifications tracked when the ticks start
MaxTracked == 2
\* SpecRedraw: number of calls of updateParticipationEmbed followed in detail
MaxFollowed == 1
\* SpecOrder: the number of reaction events followed from their arrival
MaxObserved == 3

(***************************************************************************)
(* Program constants.                                                      *)
(***************************************************************************)
\* boss.respawn_hours * 60 * 60 * 1000
MsPerHour == 60 * 60 * 1000
\* 24 * 60 * 60 * 1000: entries older than this past their respawn are evicted
OneDayMs == 24 * 60 * 60 * 1000

(***************************************************************************)
(* JavaScript values.  A timing field of a payload is absent (undefined or *)
(* null), a string that does not parse as a date, or an ISO string that    *)
(* parses to the instant ms; respawn_hours is absent or a number.  A Date  *)
(* is valid (ms) or the Invalid Date; a function may return null instead.  *)
(***************************************************************************)
Absent == [kind |-> "absent", ms |-> 0]
Garbage == [kind |-> "garbage", ms |-> 0]
Iso(t) == [kind |-> "iso", ms |-> t]
Hours(h) == [kind |-> "number", ms |-> h]

Null == [kind |-> "null", ms |-> 0]
InvalidDate == [kind |-> "invalidDate", ms |-> 0]
Date(t) == [kind |-> "date", ms |-> t]

\* JavaScript truthiness of a payload field: undefined/null and the number 0
\* are falsy, a non-empty string and a non-zero number are truthy.
Truthy(v) == CASE v.kind = "absent" -> FALSE
               [] v.kind = "number" -> v.ms # 0
               [] OTHER -> TRUE

\* new Date(v) for a truthy string field
NewDate(v) == IF v.kind = "iso" THEN Date(v.ms) ELSE InvalidDate

\* isNaN(d.getTime())
IsNaNDate(d) == d.kind # "date"

\* A boss payload (the timing fields of req.body).
Boss(rt, tod, rh) == [respawn_time |-> rt, time_of_death |-> tod, respawn_hours |-> rh]

(***************************************************************************)
(* Mutants of calculateRespawnTime.                                        *)
(***************************************************************************)
\* respawn_time always first, whether past or future
calculateRespawnTimeApiFirst(boss, t) ==
  IF Truthy(boss.respawn_time) /\ ~IsNaNDate(NewDate(boss.respawn_time))
  THEN NewDate(boss.respawn_time)
  ELSE IF /\ Truthy(boss.time_of_death)
          /\ Truthy(boss.respawn_hours)
          /\ ~IsNaNDate(NewDate(boss.time_of_death))
  THEN Date(NewDate(boss.time_of_death).ms + boss.respawn_hours.ms * MsPerHour)
  ELSE Null

\* >= in place of > in the test for a future respawn_time
calculateRespawnTimeNotPast(boss, t) ==
  IF /\ Truthy(boss.respawn_time)
     /\ ~IsNaNDate(NewDate(boss.respawn_time))
     /\ NewDate(boss.respawn_time).ms >= t
  THEN NewDate(boss.respawn_time)
  ELSE IF /\ Truthy(boss.time_of_death)
          /\ Truthy(boss.respawn_hours)
          /\ ~IsNaNDate(NewDate(boss.time_of_death))
  THEN Date(NewDate(boss.time_of_death).ms + boss.respawn_hours.ms * MsPerHour)
  ELSE IF Truthy(boss.respawn_time)
  THEN NewDate(boss.respawn_time)
  ELSE Null

(***************************************************************************)
(* calculateRespawnTime(boss), evaluated when the clock reads t.           *)
(***************************************************************************)
calculateRespawnTime(boss, t) ==
  IF /\ Truthy(boss.respawn_time)
     /\ ~IsNaNDate(NewDate(boss.respawn_time))
     /\ NewDate(boss.respawn_time).ms > t
  THEN NewDate(boss.respawn_time)
  ELSE IF /\ Truthy(boss.time_of_death)
          /\ Truthy(boss.respawn_hours)
          /\ ~IsNaNDate(NewDate(boss.time_of_death))
  THEN Date(NewDate(boss.time_of_death).ms + boss.respawn_hours.ms * MsPerHour)
  ELSE IF Truthy(boss.respawn_time)
  THEN NewDate(boss.respawn_time)
  ELSE Null

(***************************************************************************)
(* formatRespawnTime(boss): "Unknown", "Available Now!" or a countdown of  *)
(* one or two units, each unit a pair <<value, suffix>>.                   *)
(***************************************************************************)
Text(s) == [text |-> s, units |-> <<>>]
Countdown(us) == [text |-> "countdown", units |-> us]

\* mutant: the test for a null or invalid date (lines 475-477) is left out
formatRespawnTimeNoNullTest(boss, t) ==
  LET respawnDate == calculateRespawnTime(boss, t)
      diffInMs == respawnDate.ms - t
      diffInSeconds == diffInMs \div 1000
      diffInMinutes == diffInSeconds \div 60
      diffInHours == diffInMinutes \div 60
      diffInDays == diffInHours \div 24
  IN IF diffInMs <= 0 THEN Text("Available Now!")
     ELSE IF diffInDays > 0
          THEN Countdown(<< <<diffInDays, "d">>, <<diffInHours % 24, "h">> >>)
     ELSE IF diffInHours > 0
          THEN Countdown(<< <<diffInHours, "h">>, <<diffInMinutes % 60, "m">> >>)
     ELSE IF diffInMinutes > 0
          THEN Countdown(<< <<diffInMinutes, "m">> >>)
     ELSE Countdown(<< <<diffInSeconds, "s">> >>)

formatRespawnTime(boss, t) ==
  LET respawnDate == calculateRespawnTime(boss, t)
      diffInMs == respawnDate.ms - t
      diffInSeconds == diffInMs \div 1000
      diffInMinutes == diffInSeconds \div 60
      diffInHours == diffInMinutes \div 60
      diffInDays == diffInHours \div 24
  IN IF respawnDate = Null \/ IsNaNDate(respawnDate) THEN Text("Unknown")
     ELSE IF diffInMs <= 0 THEN Text("Available Now!")
     ELSE IF diffInDays > 0
          THEN Countdown(<< <<diffInDays, "d">>, <<diffInHours % 24, "h">> >>)
     ELSE IF diffInHours > 0
          THEN Countdown(<< <<diffInHours, "h">>, <<diffInMinutes % 60, "m">> >>)
     ELSE IF diffInMinutes > 0
          THEN Countdown(<< <<diffInMinutes, "m">> >>)
     ELSE Countdown(<< <<diffInSeconds, "s">> >>)

(***************************************************************************)
(* formatDiscordDate(boss): the instant rendered as month, day, hour and   *)
(* minute (seconds and milliseconds are dropped), or null.                 *)
(***************************************************************************)
formatDiscordDate(boss, t) ==
  LET respawnDate == calculateRespawnTime(boss, t)
  IN IF respawnDate = Null \/ IsNaNDate(respawnDate) THEN Null
     ELSE [kind |-> "monthDayHourMinute", ms |-> respawnDate.ms \div (60 * 1000)]

(***************************************************************************)
(* State.                                                                  *)
(***************************************************************************)
VARIABLES
  now,                \* the wall clock (ms), read by every new Date()
  isConnected,        \* set by the 'ready' event, cleared by 'disconnect'
  nextId,             \* the id the transport gives the next posted message
  sends,              \* /api/send-boss requests suspended after channel.send
  participationData,  \* Map: message id -> {participating, notParticipating}
  messageBossData,    \* Map: message id -> boss data, in insertion order
  tick,               \* the setInterval callback: idle or suspended in its
                      \* loop, with the entries visited and failed in this run
  redraws,            \* messages with an updateParticipationEmbed call in flight
  lastOutcome,        \* what the most recent reaction handler or request did
  display,            \* SpecTime: the time values last rendered for one boss
  quickStats,         \* the counts and the rate last computed for an embed
  embed,              \* SpecRedraw: the fields of the embed the message shows
  job,                \* SpecRedraw: one call of updateParticipationEmbed,
                      \* followed from its first line to its message.edit
  observed            \* SpecOrder: the reaction events in arrival order,
                      \* each with the position of its handler

vars == <<now, isConnected, nextId, sends, participationData, messageBossData,
          tick, redraws, lastOutcome, display, quickStats, embed, job, observed>>

storeVars == <<participationData, messageBossData>>

MsgIds == 1..MaxMsg
Users == 1..MaxUsers
\* the bot's own user id (user.bot is true for it)
BotUser == 0
Reactors == Users \cup {BotUser}

\* reaction.emoji.name: the two recognized symbols and any other
Positive == "white_check_mark"
Negative == "x"
OtherEmoji == "thumbsup"
Emojis == {Positive, Negative, OtherEmoji}

\* a fresh { participating: new Set(), notParticipating: new Set() }
EmptyParticipation == [participating |-> {}, notParticipating |-> {}]

\* Map helpers.  participationData is a function on its keys; messageBossData
\* is the sequence of its entries [id, boss] in insertion order, which is the
\* order entries() iterates in.
MapDelete(f, k) == [x \in DOMAIN f \ {k} |-> f[x]]
MapSet(f, k, v) == [x \in DOMAIN f \cup {k} |-> IF x = k THEN v ELSE f[x]]
BossKeys(entries) == {entries[i].id : i \in DOMAIN entries}
BossDelete(entries, m) == SelectSeq(entries, LAMBDA e : e.id # m)
BossSet(entries, m, b) ==
  IF m \in BossKeys(entries)
  THEN [i \in DOMAIN entries |-> IF entries[i].id = m THEN [id |-> m, boss |-> b]
                                                     ELSE entries[i]]
  ELSE Append(entries, [id |-> m, boss |-> b])

(***************************************************************************)
(* The counts of the Quick Stats field (lines 282-285 of                   *)
(* updateParticipationEmbed, lines 533-536 of createBossEmbed).            *)
(***************************************************************************)
\* mutant: Math.floor in place of Math.round
participationRateFloor(participatingCount, totalResponses) ==
  IF totalResponses > 0
  THEN (participatingCount * 100) \div totalResponses
  ELSE 0

\* totalResponses > 0 ? Math.round((participatingCount / totalResponses) * 100) : 0
\* (Math.round of a non-negative x is the floor of x + 1/2)
participationRate(participatingCount, totalResponses) ==
  IF totalResponses > 0
  THEN (2 * participatingCount * 100 + totalResponses) \div (2 * totalResponses)
  ELSE 0

\* the counts computed for the embed of message m from its record
QuickStats(m, data) ==
  LET participatingCount == Cardinality(data.participating)
      notParticipatingCount == Cardinality(data.notParticipating)
      totalResponses == participatingCount + notParticipatingCount
  IN [id |-> m,
      participatingCount |-> participatingCount,
      notParticipatingCount |-> notParticipatingCount,
      totalResponses |-> totalResponses,
      participationRate |-> participationRate(participatingCount, totalResponses)]

\* no embed has been built yet
NoStats ==
  [id |-> 0, participatingCount |-> 0, notParticipatingCount |-> 0,
   totalResponses |-> 0, participationRate |-> 0]

\* An embed is the function from the names of its fields to their values.
\* no embed is followed
NoEmbed == << >>

\* no call of updateParticipationEmbed is followed
NoJob ==
  [pc |-> "none", calls |-> 0, id |-> 0, list |-> "none", cur |-> 0,
   participatingUsers |-> {}, notParticipatingUsers |-> {},
   stats |-> NoStats, old |-> NoEmbed, new |-> NoEmbed]

(***************************************************************************)
(* Inputs of Spec: the clock readings and the payloads sent to             *)
(* /api/send-boss.                                                         *)
(***************************************************************************)
ClockValues == {0, 2 * MsPerHour, 26 * MsPerHour}
BossPayloads ==
  { Boss(Absent, Absent, Absent),
    Boss(Iso(MsPerHour), Absent, Absent),
    Boss(Iso(MsPerHour), Iso(MsPerHour), Hours(8)) }

NoDisplay ==
  [shown |-> FALSE, boss |-> Boss(Absent, Absent, Absent), at |-> 0,
   respawnTime |-> Null, formattedTime |-> Text("Unknown"), formattedDate |-> Null]

Init ==
  /\ now = 0
  /\ isConnected = FALSE
  /\ nextId = 1
  /\ sends = << >>
  /\ participationData = << >>
  /\ messageBossData = << >>
  /\ tick = [pc |-> "idle", visited |-> {}, cur |-> 0, failed |-> {}]
  /\ redraws = {}
  /\ lastOutcome = "none"
  /\ display = NoDisplay
  /\ quickStats = NoStats
  /\ embed = NoEmbed
  /\ job = NoJob
  /\ observed = << >>

(***************************************************************************)
(* The clock and the connection events.                                    *)
(***************************************************************************)
AdvanceClock ==
  /\ \E t \in ClockValues : t > now /\ now' = t
  /\ UNCHANGED <<isConnected, nextId, sends, participationData, messageBossData,
                 tick, redraws, lastOutcome, display, quickStats,
                 embed, job, observed>>

\* discordClient.on('ready')
Ready ==
  /\ ~isConnected
  /\ isConnected' = TRUE
  /\ UNCHANGED <<now, nextId, sends, participationData, messageBossData,
                 tick, redraws, lastOutcome, display, quickStats,
                 embed, job, observed>>

\* discordClient.on('disconnect')
Disconnect ==
  /\ isConnected
  /\ isConnected' = FALSE
  /\ UNCHANGED <<now, nextId, sends, participationData, messageBossData,
                 tick, redraws, lastOutcome, display, quickStats,
                 embed, job, observed>>

(***************************************************************************)
(* Reaction events.  fetched = FALSE is a partial reaction whose           *)
(* reaction.fetch() rejects: the handler's catch logs it and returns.      *)
(* The handler reads and writes the maps only after that await, in one     *)
(* synchronous run up to the call of updateParticipationEmbed.             *)
(***************************************************************************)
\* mutant: the add does not delete the user from the opposite set
AddToSetsNoDelete(data, u, emoji) ==
  IF emoji = Positive
  THEN [participating |-> data.participating \cup {u},
        notParticipating |-> data.notParticipating]
  ELSE [participating |-> data.participating,
        notParticipating |-> data.notParticipating \cup {u}]

\* mutant: the add replaces the set by the user instead of inserting into it
AddToSetsOverwrite(data, u, emoji) ==
  IF emoji = Positive
  THEN [participating |-> {u},
        notParticipating |-> data.notParticipating \ {u}]
  ELSE [participating |-> data.participating \ {u},
        notParticipating |-> {u}]

\* lines 212-220: the two sets after an add of emoji by user u
AddToSets(data, u, emoji) ==
  IF emoji = Positive
  THEN [participating |-> data.participating \cup {u},
        notParticipating |-> data.notParticipating \ {u}]
  ELSE [participating |-> data.participating \ {u},
        notParticipating |-> data.notParticipating \cup {u}]

\* mutant: the removal deletes the user from both sets
RemoveFromBothSets(data, u, emoji) ==
  [participating |-> data.participating \ {u},
   notParticipating |-> data.notParticipating \ {u}]

\* lines 256-262: the two sets after a removal of emoji by user u
RemoveFromSets(data, u, emoji) ==
  IF emoji = Positive
  THEN [participating |-> data.participating \ {u},
        notParticipating |-> data.notParticipating]
  ELSE [participating |-> data.participating,
        notParticipating |-> data.notParticipating \ {u}]

\* mutant: no test of the symbol; another symbol changes neither set but
\* still creates the record and redraws
handleReactionAddAnySymbol(m, u, emoji, fetched) ==
  IF ~fetched
  THEN /\ lastOutcome' = "fetchFailed"
       /\ UNCHANGED <<participationData, redraws, quickStats>>
  ELSE LET data == IF m \in DOMAIN participationData
                   THEN participationData[m]
                   ELSE EmptyParticipation
       IN /\ participationData' =
               MapSet(participationData, m,
                      IF emoji \in {Positive, Negative}
                      THEN AddToSets(data, u, emoji) ELSE data)
          /\ redraws' = redraws \cup {m}
          /\ quickStats' = QuickStats(m, participationData'[m])
          /\ lastOutcome' = IF m \in DOMAIN participationData THEN "added" ELSE "created"

handleReactionAdd(m, u, emoji, fetched) ==
  IF ~fetched
  THEN /\ lastOutcome' = "fetchFailed"
       /\ UNCHANGED <<participationData, redraws, quickStats>>
  ELSE IF emoji # Positive /\ emoji # Negative
  THEN /\ lastOutcome' = "symbolIgnored"
       /\ UNCHANGED <<participationData, redraws, quickStats>>
  ELSE LET data == IF m \in DOMAIN participationData
                   THEN participationData[m]
                   ELSE EmptyParticipation
       IN /\ participationData' = MapSet(participationData, m, AddToSets(data, u, emoji))
          /\ redraws' = redraws \cup {m}
          /\ quickStats' = QuickStats(m, participationData'[m])
          /\ lastOutcome' = IF m \in DOMAIN participationData THEN "added" ELSE "created"

handleReactionRemove(m, u, emoji, fetched) ==
  IF ~fetched
  THEN /\ lastOutcome' = "fetchFailed"
       /\ UNCHANGED <<participationData, redraws, quickStats>>
  ELSE IF emoji # Positive /\ emoji # Negative
  THEN /\ lastOutcome' = "symbolIgnored"
       /\ UNCHANGED <<participationData, redraws, quickStats>>
  ELSE IF m \notin DOMAIN participationData
  THEN /\ lastOutcome' = "dropped"
       /\ UNCHANGED <<participationData, redraws, quickStats>>
  ELSE /\ participationData' =
            MapSet(participationData, m, RemoveFromSets(participationData[m], u, emoji))
       /\ redraws' = redraws \cup {m}
       /\ quickStats' = QuickStats(m, participationData'[m])
       /\ lastOutcome' = "removed"

\* mutant: no test of user.bot
messageReactionAddAnyUser(m, u, emoji, fetched) ==
  /\ m < nextId
  /\ handleReactionAdd(m, u, emoji, fetched)
  /\ UNCHANGED <<now, isConnected, nextId, sends, messageBossData, tick, display>>

\* discordClient.on('messageReactionAdd'): a reaction on a posted message
messageReactionAdd(m, u, emoji, fetched) ==
  /\ m < nextId
  /\ IF u = BotUser
     THEN /\ lastOutcome' = "botIgnored"
          /\ UNCHANGED <<participationData, redraws, quickStats>>
     ELSE handleReactionAdd(m, u, emoji, fetched)
  /\ UNCHANGED <<now, isConnected, nextId, sends, messageBossData, tick, display>>

\* discordClient.on('messageReactionRemove')
messageReactionRemove(m, u, emoji, fetched) ==
  /\ m < nextId
  /\ IF u = BotUser
     THEN /\ lastOutcome' = "botIgnored"
          /\ UNCHANGED <<participationData, redraws, quickStats>>
     ELSE handleReactionRemove(m, u, emoji, fetched)
  /\ UNCHANGED <<now, isConnected, nextId, sends, messageBossData, tick, display>>

\* the updateParticipationEmbed call a reaction handler awaits comes back:
\* message.edit resolved, or it rejected and the catch logged it
RedrawDone(m) ==
  /\ m \in redraws
  /\ redraws' = redraws \ {m}
  /\ UNCHANGED <<now, isConnected, nextId, sends, participationData,
                 messageBossData, tick, lastOutcome, display, quickStats,
                 embed, job, observed>>

(***************************************************************************)
(* POST /api/send-boss.  transport is what the Discord calls of the        *)
(* request do: the channel fetch returns null or throws, channel.send      *)
(* throws, or the message is posted.  After channel.send the request is    *)
(* suspended twice, on message.react of each symbol, and registers the     *)
(* message in the two maps when the second one resolves.                   *)
(***************************************************************************)
\* hasMonster, hasName: the payload carries the subject as monster, as name.
\* The handler tests bossData.monster alone (line 627), so hasName decides
\* nothing.
TransportOutcomes == {"ok", "noChannel", "fetchThrows", "sendThrows"}

sendBoss(isAdmin, hasMonster, hasName, boss, transport) ==
  /\ IF ~isConnected THEN
       /\ lastOutcome' = "503"
       /\ UNCHANGED <<nextId, sends, quickStats>>
     ELSE IF ~isAdmin THEN
       /\ lastOutcome' = "403"
       /\ UNCHANGED <<nextId, sends, quickStats>>
     ELSE IF ~hasMonster THEN
       /\ lastOutcome' = "400"
       /\ UNCHANGED <<nextId, sends, quickStats>>
     ELSE IF transport = "noChannel" THEN
       /\ lastOutcome' = "404"
       /\ UNCHANGED <<nextId, sends, quickStats>>
     ELSE IF transport # "ok" THEN
       /\ lastOutcome' = "500"
       /\ UNCHANGED <<nextId, sends, quickStats>>
     ELSE
       /\ nextId <= MaxMsg
       /\ sends' = MapSet(sends, nextId, [pc |-> "react1", boss |-> boss])
       /\ nextId' = nextId + 1
       /\ quickStats' = QuickStats(nextId, EmptyParticipation)
       /\ UNCHANGED lastOutcome
  /\ UNCHANGED <<now, isConnected, participationData, messageBossData, tick,
                 redraws, display, embed, job, observed>>

\* mutant: the request registers the participation record but not the boss data
sendBossReactedNoSnapshot(m, ok) ==
  /\ m \in DOMAIN sends
  /\ IF ~ok THEN
       /\ sends' = MapDelete(sends, m)
       /\ lastOutcome' = "500"
       /\ UNCHANGED <<participationData, messageBossData>>
     ELSE IF sends[m].pc = "react1" THEN
       /\ sends' = MapSet(sends, m, [sends[m] EXCEPT !.pc = "react2"])
       /\ UNCHANGED <<participationData, messageBossData, lastOutcome>>
     ELSE
       /\ participationData' = MapSet(participationData, m, EmptyParticipation)
       /\ sends' = MapDelete(sends, m)
       /\ lastOutcome' = "200"
       /\ UNCHANGED messageBossData
  /\ UNCHANGED <<now, isConnected, nextId, tick, redraws, display, quickStats,
                 embed, job, observed>>

\* a message.react of the request that posted m resolves (ok) or rejects
sendBossReacted(m, ok) ==
  /\ m \in DOMAIN sends
  /\ IF ~ok THEN
       /\ sends' = MapDelete(sends, m)
       /\ lastOutcome' = "500"
       /\ UNCHANGED <<participationData, messageBossData>>
     ELSE IF sends[m].pc = "react1" THEN
       /\ sends' = MapSet(sends, m, [sends[m] EXCEPT !.pc = "react2"])
       /\ UNCHANGED <<participationData, messageBossData, lastOutcome>>
     ELSE
       /\ participationData' = MapSet(participationData, m, EmptyParticipation)
       /\ messageBossData' = BossSet(messageBossData, m, sends[m].boss)
       /\ sends' = MapDelete(sends, m)
       /\ lastOutcome' = "200"
  /\ UNCHANGED <<now, isConnected, nextId, tick, redraws, display, quickStats,
                 embed, job, observed>>

(***************************************************************************)
(* The periodic update (setInterval callback).  The first loop walks the   *)
(* live entries of messageBossData and suspends on the Discord calls of    *)
(* each entry that has participation data; when the loop ends the cleanup  *)
(* loop runs in the same synchronous run.                                  *)
(***************************************************************************)
\* lines 134-147: from the entries not yet visited, skip those without
\* participation data and stop at the first one that has it (cur = 0: none)
LoopRun(entries, pd, visited) ==
  LET rest == SelectSeq(entries, LAMBDA e : e.id \notin visited)
      hits == {i \in DOMAIN rest : rest[i].id \in DOMAIN pd}
  IN IF hits = {}
     THEN [cur |-> 0, visited |-> visited \cup BossKeys(rest)]
     ELSE LET i == CHOOSE k \in hits : \A j \in hits : k <= j
          IN [cur |-> rest[i].id, visited |-> visited \cup {rest[j].id : j \in 1..i}]

\* mutant: <= in place of < in the comparison with oneDayAgo
IsOldNotStrict(boss, t) ==
  LET respawnTime == calculateRespawnTime(boss, t)
  IN /\ respawnTime # Null
     /\ ~IsNaNDate(respawnTime)
     /\ respawnTime.ms <= t - OneDayMs

\* lines 173-174: the entry is more than 24 hours past its respawn time
IsOld(boss, t) ==
  LET respawnTime == calculateRespawnTime(boss, t)
  IN /\ respawnTime # Null
     /\ ~IsNaNDate(respawnTime)
     /\ respawnTime.ms < t - OneDayMs

\* lines 167-179: the maps after the cleanup loop
CleanBoss(entries, t) == SelectSeq(entries, LAMBDA e : ~IsOld(e.boss, t))
CleanParticipation(entries, pd, t) ==
  [x \in DOMAIN pd \ {e.id : e \in {entries[i] : i \in {j \in DOMAIN entries : IsOld(entries[j].boss, t)}}}
     |-> pd[x]]

\* continue the first loop from the entries not visited; at its end clean up
TickContinue(entries, pd, visited, failed) ==
  LET r == LoopRun(entries, pd, visited)
  IN IF r.cur = 0
     THEN /\ messageBossData' = CleanBoss(entries, now)
          /\ participationData' = CleanParticipation(entries, pd, now)
          /\ tick' = [pc |-> "idle", visited |-> {}, cur |-> 0, failed |-> {}]
          /\ lastOutcome' = IF CleanBoss(entries, now) # entries
                            THEN "cleaned" ELSE lastOutcome
     ELSE /\ messageBossData' = entries
          /\ participationData' = pd
          /\ tick' = [pc |-> "await", visited |-> r.visited, cur |-> r.cur,
                      failed |-> failed]
          /\ UNCHANGED lastOutcome

\* the interval fires (one callback in flight at a time: the interval of two
\* minutes is taken to outlast the Discord calls of one run)
tickFire ==
  /\ tick.pc = "idle"
  /\ IF ~isConnected
     THEN UNCHANGED <<participationData, messageBossData, tick, lastOutcome>>
     ELSE TickContinue(messageBossData, participationData, {}, {})
  /\ UNCHANGED <<now, isConnected, nextId, sends, redraws, display, quickStats,
                 embed, job, observed>>

\* the Discord calls for the current entry come back: the channel is null
\* or a call throws (continue), the message cannot be fetched (both keys
\* deleted), or the message was fetched and updateParticipationEmbed
\* returned, its message.edit resolved (ok) or rejected and caught inside it
\* (editFailed, lines 432-435)
TickOutcomes == {"ok", "noChannel", "noMessage", "threw", "editFailed"}

\* mutant: a failure for one entry ends the callback, with no cleanup
tickResumeAbortOnFailure(outcome) ==
  /\ tick.pc = "await"
  /\ IF outcome \in {"ok", "editFailed"}
     THEN TickContinue(messageBossData, participationData, tick.visited,
                       tick.failed \cup (IF outcome = "ok" THEN {} ELSE {tick.cur}))
     ELSE /\ tick' = [pc |-> "idle", visited |-> {}, cur |-> 0, failed |-> {}]
          /\ UNCHANGED <<participationData, messageBossData, lastOutcome>>
  /\ quickStats' = IF outcome \in {"ok", "editFailed"}
                   THEN QuickStats(tick.cur, participationData[tick.cur])
                   ELSE quickStats
  /\ UNCHANGED <<now, isConnected, nextId, sends, redraws, display, embed, job, observed>>

tickResume(outcome) ==
  /\ tick.pc = "await"
  /\ IF outcome = "noMessage"
     THEN TickContinue(BossDelete(messageBossData, tick.cur),
                       MapDelete(participationData, tick.cur), tick.visited,
                       tick.failed \cup {tick.cur})
     ELSE TickContinue(messageBossData, participationData, tick.visited,
                       tick.failed \cup (IF outcome = "ok" THEN {} ELSE {tick.cur}))
  /\ quickStats' = IF outcome \in {"ok", "editFailed"}
                   THEN QuickStats(tick.cur, participationData[tick.cur])
                   ELSE quickStats
  /\ UNCHANGED <<now, isConnected, nextId, sends, redraws, display, embed, job, observed>>

Next ==
  \/ AdvanceClock
  \/ Ready
  \/ Disconnect
  \/ \E m \in MsgIds, u \in Reactors, e \in Emojis, f \in BOOLEAN :
       messageReactionAdd(m, u, e, f) /\ UNCHANGED <<embed, job, observed>>
  \/ \E m \in MsgIds, u \in Reactors, e \in Emojis, f \in BOOLEAN :
       messageReactionRemove(m, u, e, f) /\ UNCHANGED <<embed, job, observed>>
  \/ \E m \in MsgIds : RedrawDone(m)
  \/ \E a \in BOOLEAN, hm \in BOOLEAN, hn \in BOOLEAN, b \in BossPayloads,
        t \in TransportOutcomes : sendBoss(a, hm, hn, b, t)
  \/ \E m \in MsgIds, ok \in BOOLEAN : sendBossReacted(m, ok)
  \/ tickFire
  \/ \E o \in TickOutcomes : tickResume(o)

Spec == Init /\ [][Next]_vars

(***************************************************************************)
(* SpecTime: the time values of one notification.  createBossEmbed         *)
(* renders the payload when the notification is sent; every redraw         *)
(* (updateParticipationEmbed) renders the stored payload again at the      *)
(* clock reading of the redraw.  display keeps what was rendered last:     *)
(* the instant calculateRespawnTime returned, the text of                  *)
(* formatRespawnTime and the date of formatDiscordDate.                    *)
(***************************************************************************)
\* the clock reads a whole hour or a little before one: half a second, half a
\* minute, a minute and a half
OracleOffsets == {0, 500, 30 * 1000, 90 * 1000}
OracleClock ==
  {0} \cup {h * MsPerHour - o : h \in 1..MaxHour, o \in OracleOffsets}
OracleRespawnTimes == {Absent, Garbage} \cup {Iso(h * MsPerHour) : h \in 1..MaxHour}
OracleDeathTimes == {Absent, Garbage} \cup {Iso(h * MsPerHour) : h \in 1..2}
\* respawn_hours: absent, a few hours, or a whole day
OracleRespawnHours ==
  {Absent} \cup {Hours(h) : h \in 0..MaxRespawnHours} \cup {Hours(24)}
OraclePayloads ==
  {Boss(rt, tod, rh) : rt \in OracleRespawnTimes, tod \in OracleDeathTimes,
                       rh \in OracleRespawnHours}

Render(boss, t) ==
  [shown |-> TRUE, boss |-> boss, at |-> t,
   respawnTime |-> calculateRespawnTime(boss, t),
   formattedTime |-> formatRespawnTime(boss, t),
   formattedDate |-> formatDiscordDate(boss, t)]

\* lines 539-546 and 665-667: the payload is rendered when it is sent
createBossEmbed(boss) ==
  /\ ~display.shown
  /\ display' = Render(boss, now)
  /\ UNCHANGED <<now, isConnected, nextId, sends, participationData,
                 messageBossData, tick, redraws, lastOutcome, quickStats,
                 embed, job, observed>>

\* lines 366-376: a redraw renders the stored payload at the current time
updateRespawnField ==
  /\ display.shown
  /\ display' = Render(display.boss, now)
  /\ UNCHANGED <<now, isConnected, nextId, sends, participationData,
                 messageBossData, tick, redraws, lastOutcome, quickStats,
                 embed, job, observed>>

AdvanceOracleClock ==
  /\ \E t \in OracleClock : t > now /\ now' = t
  /\ UNCHANGED <<isConnected, nextId, sends, participationData, messageBossData,
                 tick, redraws, lastOutcome, display, quickStats,
                 embed, job, observed>>

NextTime ==
  \/ \E b \in OraclePayloads : createBossEmbed(b)
  \/ updateRespawnField
  \/ AdvanceOracleClock

SpecTime == Init /\ [][NextTime]_vars

(***************************************************************************)
(* SpecPoll: one notification has been sent and registered (the state      *)
(* after a successful /api/send-boss), and MaxVoters users add and remove  *)
(* reactions on it; every handled reaction computes the Quick Stats.       *)
(***************************************************************************)
Voters == 1..MaxVoters

InitPoll ==
  /\ now = 0
  /\ isConnected = TRUE
  /\ nextId = 2
  /\ sends = << >>
  /\ participationData = MapSet(<< >>, 1, EmptyParticipation)
  /\ messageBossData = BossSet(<< >>, 1, Boss(Iso(MsPerHour), Absent, Absent))
  /\ tick = [pc |-> "idle", visited |-> {}, cur |-> 0, failed |-> {}]
  /\ redraws = {}
  /\ lastOutcome = "200"
  /\ display = NoDisplay
  /\ quickStats = QuickStats(1, EmptyParticipation)
  /\ embed = NoEmbed
  /\ job = NoJob
  /\ observed = << >>

NextPoll ==
  \/ \E u \in Voters, e \in {Positive, Negative}, f \in BOOLEAN :
       messageReactionAdd(1, u, e, f) /\ UNCHANGED <<embed, job, observed>>
  \/ \E u \in Voters, e \in {Positive, Negative}, f \in BOOLEAN :
       messageReactionRemove(1, u, e, f) /\ UNCHANGED <<embed, job, observed>>
  \/ RedrawDone(1)

SpecPoll == InitPoll /\ [][NextPoll]_vars

(***************************************************************************)
(* SpecTick: MaxTracked notifications have been sent and registered, and   *)
(* the interval callback runs again and again while the clock advances     *)
(* past their respawn times and the client disconnects and reconnects.     *)
(***************************************************************************)
TrackedIds == 1..MaxTracked

\* clock readings around the day after the respawn time 01:00
TickClock == {h * MsPerHour : h \in {0, 2, 24, 25, 26}}

InitTick ==
  /\ now = 0
  /\ isConnected = TRUE
  /\ nextId = MaxTracked + 1
  /\ sends = << >>
  /\ participationData = [m \in TrackedIds |-> EmptyParticipation]
  /\ \E payload \in [TrackedIds -> BossPayloads] :
       messageBossData = [m \in TrackedIds |-> [id |-> m, boss |-> payload[m]]]
  /\ tick = [pc |-> "idle", visited |-> {}, cur |-> 0, failed |-> {}]
  /\ redraws = {}
  /\ lastOutcome = "200"
  /\ display = NoDisplay
  /\ quickStats = QuickStats(MaxTracked, EmptyParticipation)
  /\ embed = NoEmbed
  /\ job = NoJob
  /\ observed = << >>

AdvanceTickClock ==
  /\ \E t \in TickClock : t > now /\ now' = t
  /\ UNCHANGED <<isConnected, nextId, sends, participationData, messageBossData,
                 tick, redraws, lastOutcome, display, quickStats,
                 embed, job, observed>>

NextTick ==
  \/ AdvanceTickClock
  \/ Ready
  \/ Disconnect
  \/ tickFire
  \/ \E o \in TickOutcomes : tickResume(o)

SpecTick == InitTick /\ [][NextTick]_vars

(***************************************************************************)
(* Embeds.  The value of a field is a record of one shape: the text of a   *)
(* plain field, the countdown and the date of the Respawn Time field, the  *)
(* names listed by the Participation Status field, the counts shown by it  *)
(* and by the Quick Stats field.  A user name stands for its user id.      *)
(***************************************************************************)
BossNameField == "Boss Name"
RespawnTimeField == "Respawn Time"
PointsField == "Points"
NotesField == "Notes"
StatusField == "Participation Status"
StatsField == "Quick Stats"

BlankValue ==
  [text |-> "", time |-> Text(""), date |-> Null,
   participating |-> {}, notParticipating |-> {}, stats |-> NoStats]
TextValue(str) == [BlankValue EXCEPT !.text = str]

\* timeValue: formattedTime, and formattedDate on a second line when not null
TimeValue(boss, t) ==
  [BlankValue EXCEPT !.time = formatRespawnTime(boss, t),
                     !.date = formatDiscordDate(boss, t)]
\* the string 'Unknown' (lines 367 and 381)
UnknownTimeValue == [BlankValue EXCEPT !.time = Text("Unknown")]

\* participationValue: the two counts and the two lists of names
StatusValue(stats, participatingUsers, notParticipatingUsers) ==
  [BlankValue EXCEPT !.stats = stats,
                     !.participating = participatingUsers,
                     !.notParticipating = notParticipatingUsers]
\* **Total Responses:** N, **Participation Rate:** R%
StatsValue(stats) == [BlankValue EXCEPT !.stats = stats]

\* lines 551-575: the fields of the embed createBossEmbed builds for message m
BossEmbed(m, boss, t) ==
  LET stats == QuickStats(m, EmptyParticipation)
  IN [n \in {BossNameField, RespawnTimeField, StatusField, StatsField} |->
        CASE n = BossNameField -> TextValue("monster")
          [] n = RespawnTimeField -> TimeValue(boss, t)
          [] n = StatusField -> StatusValue(stats, {}, {})
          [] OTHER -> StatsValue(stats)]

\* lines 336-425: the fields of updatedEmbed, built from the embed the message
\* had when the call started (old), the counts taken at the start of the call
\* and the names fetched since (j), and the stored boss data at time t
updatedEmbed(j, entries, t) ==
  LET old == j.old
      preserved ==
        IF Cardinality(DOMAIN old) >= 2
        THEN ({BossNameField, PointsField, NotesField} \cap DOMAIN old)
               \cup {RespawnTimeField}
        ELSE {}
      stored == {i \in DOMAIN entries : entries[i].id = j.id}
      timeValue ==
        IF stored # {}
        THEN TimeValue(entries[CHOOSE i \in stored : TRUE].boss, t)
        ELSE IF RespawnTimeField \in DOMAIN old
        THEN old[RespawnTimeField]
        ELSE UnknownTimeValue
  IN [n \in preserved \cup {StatusField, StatsField} |->
        CASE n = StatusField ->
               StatusValue(j.stats, j.participatingUsers, j.notParticipatingUsers)
          [] n = StatsField -> StatsValue(j.stats)
          [] n = RespawnTimeField -> timeValue
          [] OTHER -> old[n]]

(***************************************************************************)
(* SpecRedraw: message 1 has been posted, and one call of                  *)
(* updateParticipationEmbed at a time is followed through its suspensions  *)
(* (one users.fetch per listed user, then message.edit) while reaction     *)
(* events go on being handled and the clock advances.  MaxFollowed calls   *)
(* are followed; the other calls are the redraws of Spec, not followed in  *)
(* detail.                                                                 *)
(* The two sets are iterated live: a user is fetched when it is in the set *)
(* at that moment and has not been named in that list by this call.        *)
(***************************************************************************)
Unseen(j, pd, list) ==
  IF j.id \notin DOMAIN pd THEN {}
  ELSE IF list = "participating"
  THEN pd[j.id].participating \ j.participatingUsers
  ELSE pd[j.id].notParticipating \ j.notParticipatingUsers

\* lines 292-333: run on to the next users.fetch, or past both loops to the
\* build of updatedEmbed and message.edit
JobContinue(j, pd) ==
  LET restP == IF j.list = "participating" THEN Unseen(j, pd, "participating") ELSE {}
      restN == Unseen(j, pd, "notParticipating")
  IN IF restP # {}
     THEN \E u \in restP : job' = [j EXCEPT !.cur = u]
     ELSE IF restN # {}
     THEN \E u \in restN : job' = [j EXCEPT !.list = "notParticipating", !.cur = u]
     ELSE job' = [j EXCEPT !.pc = "edit", !.list = "none", !.cur = 0,
                           !.new = updatedEmbed(j, messageBossData, now)]

\* lines 274-285: the call a handler makes after it changed the sets of m;
\* it returns at once when the message has no embed
updateParticipationEmbed(m) ==
  IF lastOutcome' \in {"added", "created", "removed"}
     /\ job.pc = "none" /\ job.calls < MaxFollowed /\ embed # NoEmbed
  THEN JobContinue([NoJob EXCEPT !.pc = "user", !.calls = job.calls + 1,
                                 !.id = m,
                                 !.list = "participating",
                                 !.stats = QuickStats(m, participationData'[m]),
                                 !.old = embed],
                   participationData')
  ELSE UNCHANGED job

\* a users.fetch of the followed call resolves or rejects: a name is pushed
usersFetched ==
  /\ job.pc = "user"
  /\ JobContinue(IF job.list = "participating"
                 THEN [job EXCEPT !.participatingUsers = @ \cup {job.cur}]
                 ELSE [job EXCEPT !.notParticipatingUsers = @ \cup {job.cur}],
                 participationData)
  /\ UNCHANGED <<now, isConnected, nextId, sends, participationData,
                 messageBossData, tick, redraws, lastOutcome, display,
                 quickStats, embed, observed>>

\* line 429: message.edit of the followed call resolves (ok) or rejects
messageEdited(ok) ==
  /\ job.pc = "edit"
  /\ embed' = IF ok THEN job.new ELSE embed
  /\ job' = [NoJob EXCEPT !.calls = job.calls]
  /\ UNCHANGED <<now, isConnected, nextId, sends, participationData,
                 messageBossData, tick, redraws, lastOutcome, display,
                 quickStats, observed>>

\* message.embeds[0] of the message reacted to: the embed of createBossEmbed,
\* an embed that also has the Points and Notes fields the redraw looks for,
\* an embed with a field of another name, or an embed with one field (the
\* handlers redraw any message they get a reaction event for)
RedrawEmbeds(boss) ==
  LET made == BossEmbed(1, boss, 0)
      With(e, n, str) == [x \in DOMAIN e \cup {n} |-> IF x = n THEN TextValue(str) ELSE e[x]]
  IN { made,
       With(With(made, PointsField, "100"), NotesField, "bring potions"),
       With(made, "Location", "north gate"),
       [x \in {BossNameField} |-> TextValue("monster")] }

\* the message is registered (the request answered 200), or it was posted
\* and never registered (a reaction marker failed, the request answered 500)
InitRedraw ==
  /\ now = 0
  /\ isConnected = TRUE
  /\ nextId = 2
  /\ sends = << >>
  /\ tick = [pc |-> "idle", visited |-> {}, cur |-> 0, failed |-> {}]
  /\ redraws = {}
  /\ display = NoDisplay
  /\ quickStats = QuickStats(1, EmptyParticipation)
  /\ job = NoJob
  /\ observed = << >>
  /\ \E boss \in BossPayloads, registered \in BOOLEAN :
       /\ embed \in (IF registered THEN RedrawEmbeds(boss)
                                   ELSE {BossEmbed(1, boss, 0)})
       /\ participationData =
            IF registered THEN MapSet(<< >>, 1, EmptyParticipation) ELSE << >>
       /\ messageBossData =
            IF registered THEN BossSet(<< >>, 1, boss) ELSE << >>
       /\ lastOutcome = IF registered THEN "200" ELSE "500"

NextRedraw ==
  \/ AdvanceClock
  \/ \E u \in Users, e \in {Positive, Negative} :
       /\ messageReactionAdd(1, u, e, TRUE)
       /\ updateParticipationEmbed(1)
       /\ UNCHANGED <<embed, observed>>
  \/ \E u \in Users, e \in {Positive, Negative} :
       /\ messageReactionRemove(1, u, e, TRUE)
       /\ updateParticipationEmbed(1)
       /\ UNCHANGED <<embed, observed>>
  \/ usersFetched
  \/ \E ok \in BOOLEAN : messageEdited(ok)

SpecRedraw == InitRedraw /\ [][NextRedraw]_vars

(***************************************************************************)
(* SpecOrder: message 1 has been posted, and the reaction events on it are *)
(* followed from their arrival.  The handler of an event whose reaction is *)
(* partial suspends in reaction.fetch() (line 190, line 237) before it     *)
(* reads or writes participationData; the handler of an event whose        *)
(* reaction is not partial runs through its mutation in the turn of the    *)
(* event.  Whether a reaction is partial and when a fetch resolves is      *)
(* decided by the client library and the network.                         *)
(***************************************************************************)
Event(kind, u, emoji, state) ==
  [kind |-> kind, user |-> u, emoji |-> emoji, state |-> state]

\* the handler of event ev runs from the line after the fetch
handlerRuns(ev, fetched) ==
  IF ev.kind = "add"
  THEN messageReactionAdd(1, ev.user, ev.emoji, fetched)
  ELSE messageReactionRemove(1, ev.user, ev.emoji, fetched)

\* a messageReactionAdd / messageReactionRemove event of user u arrives
reactionObserved(kind, u, emoji, partial) ==
  /\ Len(observed) < MaxObserved
  /\ IF partial
     THEN /\ observed' = Append(observed, Event(kind, u, emoji, "suspended"))
          /\ UNCHANGED <<now, isConnected, nextId, sends, participationData,
                         messageBossData, tick, redraws, lastOutcome, display,
                         quickStats>>
     ELSE /\ observed' = Append(observed, Event(kind, u, emoji, "done"))
          /\ handlerRuns(Event(kind, u, emoji, "done"), TRUE)
  /\ UNCHANGED <<embed, job>>

\* the reaction.fetch() of the handler of the i-th event resolves or rejects
reactionFetched(i, ok) ==
  /\ i \in DOMAIN observed
  /\ observed[i].state = "suspended"
  /\ handlerRuns(observed[i], ok)
  /\ observed' = [observed EXCEPT ![i].state = IF ok THEN "done" ELSE "failed"]
  /\ UNCHANGED <<embed, job>>

InitOrder ==
  /\ now = 0
  /\ isConnected = TRUE
  /\ nextId = 2
  /\ sends = << >>
  /\ tick = [pc |-> "idle", visited |-> {}, cur |-> 0, failed |-> {}]
  /\ redraws = {}
  /\ display = NoDisplay
  /\ quickStats = QuickStats(1, EmptyParticipation)
  /\ embed = NoEmbed
  /\ job = NoJob
  /\ observed = << >>
  /\ \E registered \in BOOLEAN :
       /\ participationData =
            IF registered THEN MapSet(<< >>, 1, EmptyParticipation) ELSE << >>
       /\ messageBossData =
            IF registered THEN BossSet(<< >>, 1, Boss(Absent, Absent, Absent))
            ELSE << >>
       /\ lastOutcome = IF registered THEN "200" ELSE "500"

NextOrder ==
  \/ \E kind \in {"add", "remove"}, u \in Users, e \in {Positive, Negative},
        partial \in BOOLEAN :
       reactionObserved(kind, u, e, partial)
  \/ \E i \in 1..MaxObserved, ok \in BOOLEAN : reactionFetched(i, ok)
  \/ RedrawDone(1)

SpecOrder == InitOrder /\ [][NextOrder]_vars

(***************************************************************************)
(* SpecEvict: the tick with the fairness of its timer.  The bot stays      *)
(* connected, the interval keeps firing, the Discord calls of a run come   *)
(* back, and the clock advances until every respawn time a snapshot can    *)
(* give is more than a day old.                                            *)
(***************************************************************************)
\* the latest respawn time of EvictPayloads is 09:00 (death 01:00 + 8 h)
EvictClock == {h * MsPerHour : h \in {0, 26, 34}}

\* snapshots with a respawn time, with no timing field, and with a
\* respawn_time that does not parse
EvictPayloads ==
  { Boss(Iso(MsPerHour), Absent, Absent),
    Boss(Iso(MsPerHour), Iso(MsPerHour), Hours(8)),
    Boss(Absent, Absent, Absent),
    Boss(Garbage, Absent, Absent) }

InitEvict ==
  /\ now = 0
  /\ isConnected = TRUE
  /\ nextId = MaxTracked + 1
  /\ sends = << >>
  /\ participationData = [m \in TrackedIds |-> EmptyParticipation]
  /\ \E payload \in [TrackedIds -> EvictPayloads] :
       messageBossData = [m \in TrackedIds |-> [id |-> m, boss |-> payload[m]]]
  /\ tick = [pc |-> "idle", visited |-> {}, cur |-> 0, failed |-> {}]
  /\ redraws = {}
  /\ lastOutcome = "200"
  /\ display = NoDisplay
  /\ quickStats = QuickStats(MaxTracked, EmptyParticipation)
  /\ embed = NoEmbed
  /\ job = NoJob
  /\ observed = << >>

AdvanceEvictClock ==
  /\ \E t \in EvictClock : t > now /\ now' = t
  /\ UNCHANGED <<isConnected, nextId, sends, participationData, messageBossData,
                 tick, redraws, lastOutcome, display, quickStats,
                 embed, job, observed>>

tickReturns == \E o \in TickOutcomes : tickResume(o)

NextEvict ==
  \/ AdvanceEvictClock
  \/ tickFire
  \/ tickReturns

SpecEvict ==
  /\ InitEvict
  /\ [][NextEvict]_vars
  /\ WF_vars(AdvanceEvictClock)
  /\ WF_vars(tickFire)
  /\ WF_vars(tickReturns)

(***************************************************************************)
(* Claims about the respawn-time computation (checked under SpecTime).     *)
(***************************************************************************)
Present(v) == v.kind # "absent"
ValidTime(v) == v.kind = "iso"
DeathPlusHours(boss) ==
  Date(boss.time_of_death.ms + boss.respawn_hours.ms * MsPerHour)

\* the four-step priority policy as the specification words it
FourStepPolicy(boss, t) ==
  IF ValidTime(boss.respawn_time) /\ boss.respawn_time.ms > t
  THEN Date(boss.respawn_time.ms)
  ELSE IF /\ Present(boss.time_of_death)
          /\ Present(boss.respawn_hours)
          /\ ValidTime(boss.time_of_death)
  THEN DeathPlusHours(boss)
  ELSE IF ValidTime(boss.respawn_time)
  THEN Date(boss.respawn_time.ms)
  ELSE Null

\* C8: for every payload and evaluation instant, calculateRespawnTime returns
\* the result of the four-step policy (a)-(d); it never returns an invalid
\* instant, and a present respawn_hours of 0 counts as present.
C8_FourStepPolicy ==
  display.shown =>
    /\ display.respawnTime = FourStepPolicy(display.boss, display.at)
    /\ display.respawnTime # InvalidDate

\* C9: a payload whose respawn_time is in the past and which has a valid
\* time_of_death and a positive respawn_hours gets the instant
\* time_of_death + respawn_hours, not respawn_time.
PastWithDeathAndHours(d) ==
  /\ d.shown
  /\ ValidTime(d.boss.respawn_time)
  /\ d.boss.respawn_time.ms < d.at
  /\ ValidTime(d.boss.time_of_death)
  /\ d.boss.respawn_hours.kind = "number"
  /\ d.boss.respawn_hours.ms > 0

DeathAndHoursUsable(boss) ==
  /\ ValidTime(boss.time_of_death)
  /\ boss.respawn_hours.kind = "number"
  /\ boss.respawn_hours.ms # 0

NoTimingFields(boss) ==
  /\ ~Present(boss.respawn_time)
  /\ ~Present(boss.time_of_death)
  /\ ~Present(boss.respawn_hours)

C11_NoTimingUnknown ==
  (display.shown /\ NoTimingFields(display.boss)) =>
    /\ display.respawnTime = Null
    /\ display.formattedTime = Text("Unknown")

\* C11 witness: a payload with no timing fields was rendered again after the
\* clock had advanced, and shows "Unknown"
C11_Witness ==
  /\ display.shown
  /\ NoTimingFields(display.boss)
  /\ display.at > 0
  /\ display.formattedTime = Text("Unknown")

\* the days, hours, minutes and seconds of a delta, largest unit first
UnitsOf(delta) ==
  << <<delta \div (24 * 60 * 60 * 1000), "d">>,
     <<(delta \div (60 * 60 * 1000)) % 24, "h">>,
     <<(delta \div (60 * 1000)) % 60, "m">>,
     <<(delta \div 1000) % 60, "s">> >>

\* the largest two non-zero units of a delta, in descending order
LargestTwoNonZero(delta) ==
  LET nonZero == SelectSeq(UnitsOf(delta), LAMBDA u : u[1] # 0)
  IN SubSeq(nonZero, 1, IF Len(nonZero) < 2 THEN Len(nonZero) ELSE 2)

PositiveDelta(d) ==
  /\ d.shown
  /\ d.respawnTime.kind = "date"
  /\ d.respawnTime.ms > d.at

\* C12: for every positive delta between the respawn instant and now,
\* formatRespawnTime renders the largest two non-zero units of days, hours,
\* minutes and seconds in descending order: the first is the largest non-zero
\* unit, the second the next non-zero unit below it, no rendered unit is zero
\* and never more than two units appear.
C12_LargestTwoUnits ==
  PositiveDelta(display) =>
    display.formattedTime =
      Countdown(LargestTwoNonZero(display.respawnTime.ms - display.at))

\* the remaining time a rendered text displays, in seconds ("Available Now!"
\* displays none)
UnitSeconds(suffix) ==
  CASE suffix = "d" -> 24 * 60 * 60
    [] suffix = "h" -> 60 * 60
    [] suffix = "m" -> 60
    [] OTHER -> 1

RECURSIVE SecondsShown(_)
SecondsShown(units) ==
  IF units = <<>> THEN 0
  ELSE Head(units)[1] * UnitSeconds(Head(units)[2]) + SecondsShown(Tail(units))

\* C13: formatRespawnTime is monotonic for a fixed snapshot: as the evaluation
\* instant advances the remaining time displayed never increases, and once
\* the output is "Available Now!" it is "Available Now!" at every later
\* instant, for every combination of respawn_time, time_of_death and
\* respawn_hours.
C13_Monotonic ==
  [][(display.shown /\ display'.shown /\ display'.boss = display.boss
        /\ display'.at >= display.at)
     => /\ (display.formattedTime = Text("Available Now!")
             => display'.formattedTime = Text("Available Now!"))
        /\ (display.formattedTime.text # "Unknown"
             /\ display'.formattedTime.text # "Unknown")
           => SecondsShown(display'.formattedTime.units)
                <= SecondsShown(display.formattedTime.units)]_vars

(***************************************************************************)
(* Claims about the two maps and the reaction handlers (checked under      *)
(* Spec).                                                                  *)
(***************************************************************************)
Recognized == {Positive, Negative}
Tracked(m) == m \in DOMAIN participationData /\ m \in BossKeys(messageBossData)
Untracked(m) == m \notin DOMAIN participationData /\ m \notin BossKeys(messageBossData)
SetOf(data, emoji) ==
  IF emoji = Positive THEN data.participating ELSE data.notParticipating
Opposite(emoji) == IF emoji = Positive THEN Negative ELSE Positive

\* C1: in every reachable state no user id is in both the participating and
\* the notParticipating set of the same notification.
C1_SetsDisjoint ==
  \A m \in DOMAIN participationData :
    participationData[m].participating \cap participationData[m].notParticipating = {}

\* C1 witness: after an add, a record holds users in both of its sets
C1_Witness ==
  /\ lastOutcome = "added"
  /\ \E m \in DOMAIN participationData :
       /\ participationData[m].participating # {}
       /\ participationData[m].notParticipating # {}

\* C2: every key of participationData is a key of messageBossData.
C2_ParticipationHasSnapshot ==
  DOMAIN participationData \subseteq BossKeys(messageBossData)

\* C3: a reaction event with a recognized symbol for a message id that is in
\* neither map is dropped: both maps stay as they were, no record is created.
C3_UntrackedDropped ==
  [][\A m \in MsgIds, u \in Users, e \in Recognized, f \in BOOLEAN :
       ((messageReactionAdd(m, u, e, f) \/ messageReactionRemove(m, u, e, f))
          /\ Untracked(m))
       => UNCHANGED storeVars]_vars

\* C4: for a tracked notification, a handled reaction-add by a non-bot user u
\* leaves u in the set of the symbol and not in the opposite set, whatever u's
\* membership was before, and changes the membership of no other user.
C4_AddTransition ==
  [][\A m \in MsgIds, u \in Users, e \in Recognized :
       (messageReactionAdd(m, u, e, TRUE) /\ Tracked(m))
       => /\ m \in DOMAIN participationData'
          /\ u \in SetOf(participationData'[m], e)
          /\ u \notin SetOf(participationData'[m], Opposite(e))
          /\ \A v \in Users \ {u}, x \in Recognized :
               v \in SetOf(participationData'[m], x)
                 <=> v \in SetOf(participationData[m], x)]_vars

\* C4 witness: after an add on a tracked notification, one user is
\* participating and another is not participating
C4_Witness ==
  /\ lastOutcome = "added"
  /\ \E m \in MsgIds, u \in Users, v \in Users :
       /\ Tracked(m)
       /\ u # v
       /\ u \in participationData[m].participating
       /\ v \in participationData[m].notParticipating

\* C5: for a tracked notification, a handled reaction-remove by user u with
\* symbol X removes u from the X set and leaves the opposite set unchanged;
\* when u is not in the X set both sets are unchanged; the handler completes
\* normally in both cases.
C5_RemoveTransition ==
  [][\A m \in MsgIds, u \in Users, e \in Recognized :
       (messageReactionRemove(m, u, e, TRUE) /\ Tracked(m))
       => /\ m \in DOMAIN participationData'
          /\ SetOf(participationData'[m], e) = SetOf(participationData[m], e) \ {u}
          /\ SetOf(participationData'[m], Opposite(e))
               = SetOf(participationData[m], Opposite(e))
          /\ (u \notin SetOf(participationData[m], e)
                => participationData' = participationData)
          /\ lastOutcome' = "removed"]_vars

\* C5 witness: after a removal on a tracked notification one set is empty and
\* the opposite set still holds a user
C5_Witness ==
  /\ lastOutcome = "removed"
  /\ \E m \in MsgIds :
       /\ Tracked(m)
       /\ participationData[m].participating = {}
       /\ participationData[m].notParticipating # {}

\* C6: the id of a bot user is never in a participation set, and a reaction
\* event of a bot user reads and writes neither map and starts no redraw.
C6_BotDiscarded ==
  [][/\ \A m \in MsgIds, e \in Emojis, f \in BOOLEAN :
          (messageReactionAdd(m, BotUser, e, f) \/ messageReactionRemove(m, BotUser, e, f))
          => UNCHANGED <<participationData, messageBossData, redraws>>
     /\ \A m \in DOMAIN participationData' :
          BotUser \notin participationData'[m].participating
                           \cup participationData'[m].notParticipating]_vars

\* C6 witness: a bot reaction was discarded while /api/send-boss, having
\* attached its first marker, is waiting for the second
C6_Witness ==
  /\ lastOutcome = "botIgnored"
  /\ \E m \in DOMAIN sends : sends[m].pc = "react2"

\* C7: a reaction event whose symbol is neither recognized symbol leaves both
\* maps unchanged and starts no redraw (no edit of the message).
C7_OtherSymbolIgnored ==
  [][\A m \in MsgIds, u \in Users, f \in BOOLEAN :
       (messageReactionAdd(m, u, OtherEmoji, f) \/ messageReactionRemove(m, u, OtherEmoji, f))
       => UNCHANGED <<participationData, messageBossData, redraws>>]_vars

\* C7 witness: an unrecognized symbol was ignored on a tracked notification
\* with no redraw in flight
C7_Witness ==
  /\ lastOutcome = "symbolIgnored"
  /\ redraws = {}
  /\ \E m \in MsgIds : Tracked(m)

(***************************************************************************)
(* Claims about the Quick Stats (checked under SpecPoll).                  *)
(***************************************************************************)
\* C14: the participation rate shown is participating / (participating +
\* notParticipating) rounded to the nearest integer percent, and 0 when there
\* are no responses; Total Responses is the sum of the two set sizes.
C14_RateShown ==
  quickStats.id \in DOMAIN participationData =>
    LET data == participationData[quickStats.id]
        p == Cardinality(data.participating)
        n == Cardinality(data.notParticipating)
        off == 100 * p - quickStats.participationRate * (p + n)
    IN /\ quickStats.participatingCount = p
       /\ quickStats.notParticipatingCount = n
       /\ quickStats.totalResponses = p + n
       /\ (p + n = 0 => quickStats.participationRate = 0)
       /\ (p + n > 0 => 2 * (IF off < 0 THEN -off ELSE off) <= p + n)

\* C14 witness: two of three responses participate and the rate shown after
\* the last add is 67
C14_Witness ==
  /\ lastOutcome = "added"
  /\ quickStats.participatingCount = 2
  /\ quickStats.notParticipatingCount = 1
  /\ quickStats.participationRate = 67

(***************************************************************************)
(* Claims about the reconciliation tick (checked under SpecTick).          *)
(***************************************************************************)
\* the computed respawn instant of a snapshot is more than 24 hours before t
Stale(boss, t) ==
  LET instant == calculateRespawnTime(boss, t)
  IN instant.kind = "date" /\ t - instant.ms > 24 * MsPerHour

\* a step in which the callback, having passed the connection test and gone
\* through its entries, runs its eviction pass and returns
EvictionPass(o) == tickResume(o) /\ tick'.pc = "idle"

\* C15: every tick that fires (the callback runs past the connection test of
\* lines 128-130) evicts from both maps each tracked entry whose computed
\* respawn instant is more than 24 hours before the tick, and evicts for
\* staleness no entry whose instant is 24 hours or less in the past.
C15_StaleEvicted ==
  [][\A o \in TickOutcomes :
       EvictionPass(o) =>
         \A i \in DOMAIN messageBossData :
           LET e == messageBossData[i]
               kept == /\ e.id \in BossKeys(messageBossData')
                       /\ e.id \in DOMAIN participationData'
               gone == /\ e.id \notin BossKeys(messageBossData')
                       /\ e.id \notin DOMAIN participationData'
           IN IF Stale(e.boss, now) THEN gone
              ELSE IF o = "noMessage" /\ e.id = tick.cur THEN gone
              ELSE kept]_vars

\* C15 witness: at 26:00 the eviction pass has removed the entry whose respawn
\* instant 01:00 is 25 hours past and has kept the entry whose instant 09:00
\* is 17 hours past
C15_Witness ==
  /\ lastOutcome = "cleaned"
  /\ tick.pc = "idle"
  /\ now = 26 * MsPerHour
  /\ BossKeys(messageBossData) = {2}
  /\ DOMAIN participationData = {2}
  /\ \E i \in DOMAIN messageBossData :
       calculateRespawnTime(messageBossData[i].boss, now) = Date(9 * MsPerHour)

\* the outcomes in which a Discord call for the current entry failed
FailureOutcomes == {"noChannel", "noMessage", "threw", "editFailed"}

\* C16: within one tick a failure of the channel fetch, the message fetch or
\* the edit for one tracked notification does not abort the tick: the loop
\* goes on to another tracked notification not yet processed as long as there
\* is one, and when there is none the eviction pass runs and the callback
\* returns; so also when the failing entry is deleted during the iteration.
C16_FailureIsolated ==
  [][\A o \in FailureOutcomes :
       tickResume(o) =>
         LET pending == BossKeys(messageBossData) \ tick.visited
         IN IF pending # {}
            THEN /\ tick'.pc = "await"
                 /\ tick'.cur \in pending
                 /\ tick.cur \in tick'.failed
                 /\ tick.visited \subseteq tick'.visited
                 /\ pending \subseteq BossKeys(messageBossData')
            ELSE /\ tick'.pc = "idle"
                 /\ \A i \in DOMAIN messageBossData' :
                      ~Stale(messageBossData'[i].boss, now)
                 /\ \A i \in DOMAIN messageBossData :
                      (~Stale(messageBossData[i].boss, now)
                         /\ messageBossData[i].id # tick.cur)
                      => messageBossData[i].id \in BossKeys(messageBossData')]_vars

\* C16 witness: the message of entry 1 could not be fetched, entry 1 was
\* deleted during the iteration, and the loop is processing entry 2
C16_Witness ==
  /\ tick.pc = "await"
  /\ tick.cur = 2
  /\ tick.failed = {1}
  /\ 1 \notin BossKeys(messageBossData)
  /\ 1 \notin DOMAIN participationData

\* C17: when during a tick the fetch or the edit of a tracked notification's
\* message fails, that entry is evicted from both maps in that tick (stated
\* for the entry the loop processes last: when the callback returns, the
\* entry is in neither map).
C17_FailedEntryEvicted ==
  [][\A o \in {"noMessage", "editFailed"} :
       EvictionPass(o) =>
         /\ tick.cur \notin BossKeys(messageBossData')
         /\ tick.cur \notin DOMAIN participationData']_vars

(***************************************************************************)
(* Claims about /api/send-boss (checked under Spec).                       *)
(***************************************************************************)
\* the step in which the request that posted m registers m (lines 674-676)
\* and answers success with m as messageId (lines 682-686)
Registers(m) == sendBossReacted(m, TRUE) /\ sends[m].pc = "react2"

\* C18: registering a notification id that is already tracked fails with
\* DuplicateNotification and leaves the existing participation record and
\* snapshot unchanged; it never silently replaces them.
C18_DuplicateRejected ==
  [][\A m \in MsgIds :
       (Registers(m)
          /\ (m \in DOMAIN participationData \/ m \in BossKeys(messageBossData)))
       => /\ UNCHANGED storeVars
          /\ lastOutcome' # "200"]_vars

\* C19: when /api/send-boss answers success with a message id, that id is
\* the one the transport assigned to the posted message, it is tracked in
\* both maps, its participation record has both sets empty and its stored
\* snapshot carries the timing fields of the request payload.
C19_SuccessRegisters ==
  [][\A m \in MsgIds :
       Registers(m)
       => /\ lastOutcome' = "200"
          /\ m < nextId
          /\ m \in DOMAIN participationData'
          /\ participationData'[m] = EmptyParticipation
          /\ \E i \in DOMAIN messageBossData' :
               messageBossData'[i] = [id |-> m, boss |-> sends[m].boss]
          /\ \A i, j \in DOMAIN messageBossData' :
               messageBossData'[i].id = messageBossData'[j].id => i = j]_vars

\* C19 witness: the request has answered success and the message is tracked
\* with two empty sets and a snapshot holding all three timing fields
C19_Witness ==
  /\ lastOutcome = "200"
  /\ \E m \in MsgIds :
       /\ Tracked(m)
       /\ participationData[m] = EmptyParticipation
       /\ \E i \in DOMAIN messageBossData :
            messageBossData[i] =
              [id |-> m, boss |-> Boss(Iso(MsPerHour), Iso(MsPerHour), Hours(8))]

\* C25: a user's recognized reaction handled after the notification is
\* posted and before its registration completes is not lost: once the
\* registration completes the user is in the set of that reaction.
C25_EarlyReactionKept ==
  [][\A m \in MsgIds :
       (Registers(m) /\ m \in DOMAIN participationData)
       => /\ participationData[m].participating
               \subseteq participationData'[m].participating
          /\ participationData[m].notParticipating
               \subseteq participationData'[m].notParticipating]_vars

\* nothing is posted and neither map is written
NothingPosted == UNCHANGED <<nextId, sends, participationData, messageBossData>>

\* C20: a send-boss request is rejected before any message is posted and
\* before any store mutation when the client is not connected (503), when
\* the caller is not privileged (403) or when the payload has no subject
\* (400); a payload that carries the subject as monster or as name is not
\* rejected as missing it.
C20_Rejections ==
  [][\A a \in BOOLEAN, hm \in BOOLEAN, hn \in BOOLEAN, b \in BossPayloads,
        t \in TransportOutcomes :
       sendBoss(a, hm, hn, b, t)
       => /\ ~isConnected => (lastOutcome' = "503" /\ NothingPosted)
          /\ (isConnected /\ ~a) => (lastOutcome' = "403" /\ NothingPosted)
          /\ (isConnected /\ a /\ ~hm /\ ~hn)
               => (lastOutcome' = "400" /\ NothingPosted)
          /\ (isConnected /\ a /\ (hm \/ hn)) => lastOutcome' # "400"]_vars

\* C21: once the notification message has been posted, a failure to attach
\* either reaction marker in the same request is recovered locally: it is not
\* reported as an error to the caller, and the posted notification is still
\* registered in both maps.
C21_ReactFailureRecovered ==
  [][\A m \in MsgIds :
       sendBossReacted(m, FALSE)
       => /\ lastOutcome' # "500"
          /\ m \in DOMAIN participationData'
          /\ m \in BossKeys(messageBossData')]_vars

(***************************************************************************)
(* Claims about the redraw (checked under SpecRedraw).                     *)
(***************************************************************************)
\* the step in which a call of updateParticipationEmbed builds updatedEmbed
Builds == job.pc # "edit" /\ job'.pc = "edit"

\* C22: every redraw computes the respawn-time field from the stored boss
\* snapshot at the time of the redraw and never copies the respawn-time text
\* of the previously rendered message.
C22_TimeFromSnapshot ==
  [][(Builds /\ RespawnTimeField \in DOMAIN job'.new)
     => \E i \in DOMAIN messageBossData :
          /\ messageBossData[i].id = job'.id
          /\ job'.new[RespawnTimeField] = TimeValue(messageBossData[i].boss, now)]_vars

C26_ConsistentEdit ==
  [][messageEdited(TRUE)
     => LET shown == embed'[StatusField]
        IN /\ Cardinality(shown.participating) = shown.stats.participatingCount
           /\ Cardinality(shown.notParticipating) = shown.stats.notParticipatingCount
           /\ embed'[StatsField].stats = shown.stats]_vars

(***************************************************************************)
(* Claim about the order of reaction events (checked under SpecOrder).     *)
(***************************************************************************)
\* the map after the handler of event ev has run on the map pd, alone
Applied(pd, ev) ==
  IF ev.state = "failed" THEN pd
  ELSE IF ev.kind = "add"
  THEN MapSet(pd, 1, AddToSets(IF 1 \in DOMAIN pd THEN pd[1] ELSE EmptyParticipation,
                               ev.user, ev.emoji))
  ELSE IF 1 \in DOMAIN pd
  THEN MapSet(pd, 1, RemoveFromSets(pd[1], ev.user, ev.emoji))
  ELSE pd

\* the map after the handlers of the first n events have run one after the
\* other, in the order of arrival, on the map of the initial state
RECURSIVE Sequential(_)
Sequential(n) ==
  IF n = 0
  THEN IF 1 \in BossKeys(messageBossData)
       THEN MapSet(<< >>, 1, EmptyParticipation) ELSE << >>
  ELSE Applied(Sequential(n - 1), observed[n])

\* the set of message 1 that holds user u in the map pd
Membership(pd, u) ==
  IF 1 \notin DOMAIN pd THEN "none"
  ELSE IF u \in pd[1].participating THEN "participating"
  ELSE IF u \in pd[1].notParticipating THEN "notParticipating"
  ELSE "none"

\* C23: reaction events for the same (message id, user id) are applied in
\* the order they were observed, also when a handler suspends fetching a
\* partial reaction before it mutates: once every handler has run, the
\* user's membership is the one of the sequential application of the
\* events in arrival order.
C23_ArrivalOrder ==
  (\A i \in DOMAIN observed : observed[i].state # "suspended")
  => \A u \in Users :
       Membership(participationData, u) = Membership(Sequential(Len(observed)), u)

(***************************************************************************)
(* Claim about eventual eviction (checked under SpecEvict).                *)
(***************************************************************************)
\* C27: every registered notification is eventually evicted from both maps,
\* provided the ticks keep firing while the bot is connected and time keeps
\* advancing, whatever its snapshot: also one with no timing fields or with
\* a respawn_time that does not parse.
C27_EventuallyEvicted ==
  \A m \in TrackedIds :
    <>(m \notin BossKeys(messageBossData) /\ m \notin DOMAIN participationData)

====
